---- MODULE Spec2Model ----
(***************************************************************************)
(* A model of bracket-terminal's BTerm context (src/bterm.rs): the         *)
(* process-wide registry BACKEND_INTERNAL, the BTerm facade that forwards  *)
(* drawing to the active console, and the mouse handling that maps pixel   *)
(* positions to per-console tile positions.                                *)
(*                                                                         *)
(* Integers: the program computes in i32 / u32.  The model computes in     *)
(* signed / unsigned integers of Bits bits with the same wrap-around,      *)
(* cast and overflow rules, so that every boundary of the 32-bit types     *)
(* (the sign bit of a u32, the most negative i32, a product that leaves    *)
(* the range) has its counterpart here.                                    *)
(*                                                                         *)
(* Indices are the program's: 0-based.  A TLA+ sequence is 1-based, so the *)
(* entry with index i of a Vec v is v[i + 1].                              *)
(***************************************************************************)
EXTENDS Integers, Sequences, FiniteSets, TLC

VARIABLES
    fonts,            \* BACKEND_INTERNAL.fonts
    consoles,         \* BACKEND_INTERNAL.consoles: a sequence of DisplayConsole
    ctx,              \* the application's BTerm
    input,            \* the process-wide INPUT state
    last,             \* the last call made on the context, and what it returned
    handles,          \* the indices the registrations have returned so far
    panicked,         \* a call has panicked: the program has aborted
    overflow_checks,  \* the build checks integer overflow (debug) or wraps (release)
    lock,             \* the holder of each Mutex: BACKEND_INTERNAL and INPUT
    pc,               \* per thread: the steps left of the call it is in
    nregs,            \* per thread: the number of registrations it has begun
    acquired,         \* per table: the registrations in the order they got the lock
    returned,         \* the indices the threads' registrations have returned
    loop              \* the loop driver: not started, between ticks, in a tick, done

\* The threads' part of the state.
tvars == <<lock, pc, nregs, acquired, returned>>

vars == <<fonts, consoles, ctx, input, last, handles, panicked, overflow_checks, tvars, loop>>

----------------------------------------------------------------------------
(* Bounds of the model. *)

Bits == 6
MaxFonts == 2
MaxConsoles == 2
MaxDraws == 2
MaxResizes == 1
NThreads == 2
MaxRegistrations == 2
MaxEvents == 3

----------------------------------------------------------------------------
(* Integer arithmetic of the program's types, at width Bits. *)

TwoW == 2 ^ Bits
IMax == 2 ^ (Bits - 1) - 1
IMin == 0 - 2 ^ (Bits - 1)
UMax == 2 ^ Bits - 1

Max(a, b) == IF a >= b THEN a ELSE b
Min(a, b) == IF a <= b THEN a ELSE b
Abs(a) == IF a >= 0 THEN a ELSE 0 - a

\* Two's-complement wrap of any integer into the signed range.
WrapI(n) == ((n - IMin) % TwoW) + IMin

\* `u as i32` for an unsigned u.
AsI32(u) == WrapI(u)

\* `f as i32` for an f64: truncation toward zero, saturating at the ends of
\* the range.  An f64 is modelled by twice its value, so that odd numbers are
\* the positions halfway between two pixels.
F64AsI32(f) ==
    LET t == IF f >= 0 THEN f \div 2 ELSE 0 - ((0 - f) \div 2)
    IN  Max(IMin, Min(t, IMax))

\* Integer division as the program's `/`: the quotient is truncated toward zero.
TruncDiv(a, b) ==
    IF (a >= 0) = (b > 0) THEN Abs(a) \div Abs(b) ELSE 0 - (Abs(a) \div Abs(b))

InI32(n) == IMin <= n /\ n <= IMax

\* Results of a computation that may panic.
Ok(v) == [panic |-> FALSE, v |-> v]
Panic == [panic |-> TRUE, v |-> 0]

\* a * b in i32: a panic when the build checks overflow, else wrapped.
MulI32(a, b, checks) ==
    IF ~InI32(a * b) /\ checks THEN Panic ELSE Ok(WrapI(a * b))

\* a - b in i32.
SubI32(a, b, checks) ==
    IF ~InI32(a - b) /\ checks THEN Panic ELSE Ok(WrapI(a - b))

\* a / b in i32: division by zero and IMin / -1 panic in every build.
DivI32(a, b) ==
    IF b = 0 \/ (a = IMin /\ b = 0 - 1) THEN Panic ELSE Ok(TruncDiv(a, b))

\* iclamp without its upper bound.
iclamp_lower_only(val, min, max) == Max(min, val)

\* iclamp without its lower bound.
iclamp_upper_only(val, min, max) == Min(val, max)

iclamp(val, min, max) == Max(min, Min(val, max))

----------------------------------------------------------------------------
(* The values the calls are made with. *)

\* Font::load results handed to register_font.
Fonts == {"terminal8x8", "vga8x16"}

\* get_char_size() of the consoles the application creates: (columns, rows)
\* as u32.  A grid without columns, an ordinary grid, and a grid whose
\* dimensions have the sign bit set when cast to i32.
GridSizes == {<<0, 2>>, <<3, 2>>, <<UMax, IMax + 1>>}

\* Window sizes in pixels, as u32.
WindowSizes == {<<0, 0>>, <<4, 3>>, <<UMax, IMax + 1>>}

\* Mouse positions the backend reports, as f64 (twice the value): between
\* pixels and negative, far to the right (half of the largest i32), and beyond
\* the i32 range both ways.
MousePositions == {<<5, 0 - 3>>, <<IMax + 1, 0>>, <<2 * IMax + 10, 2 * IMin - 10>>}

\* Forwarded drawing calls of the Console trait.
DrawCalls == {"cls", "print"}

\* Arguments of set_active_console: any usize, valid or not.
ConsoleIds == 0 .. MaxConsoles

\* Arguments font_index of the registrations: any usize.
FontIds == 0 .. 1

\* The keys the backend reports, VirtualKeyCode values, each with its scan code.
Keys == {"A", "B"}
ScanCode(key) == IF key = "A" THEN 30 ELSE 48

\* The mouse buttons the backend reports: button_num, any usize.
Buttons == 0 .. 1

\* Events the backend hands to on_event as they are.
RawEvents == {[type |-> "CloseRequested"]}

----------------------------------------------------------------------------
(* The registry and the consoles. *)

\* A console the application hands over: a Box<dyn Console>, an object of its
\* own (id), with a grid size, the drawing calls it has received, the pixel
\* size it was last told and the number of resize_pixels calls it received.
NewConsole(id, size) ==
    [id |-> id, size |-> size, cells |-> <<>>, px |-> <<>>, resized |-> 0]

DisplayConsole(console, shader_index, font_index) ==
    [console |-> console, shader_index |-> shader_index, font_index |-> font_index]

\* bi.consoles[i] is in bounds.
ValidIndex(i) == i < Len(consoles)

\* self.active_console indexes a registered console.
ActiveValid == ValidIndex(ctx.active_console)

\* The two Mutexes: BACKEND_INTERNAL guards the registry, INPUT the input state.
Mutexes == {"BACKEND_INTERNAL", "INPUT"}

\* The threads that use a context, each its own clone of the BTerm: the
\* application's thread and the backend's callback threads.
Threads == 1 .. NThreads
NoThread == 0

\* A thread that is in no call has no step left.
Idle == <<>>

Call(op, args, ret) == [op |-> op, args |-> args, ret |-> ret]

Init ==
    /\ fonts = <<>>
    /\ consoles = <<>>
    /\ \E ws \in WindowSizes :
         ctx = [width_pixels |-> ws[1], height_pixels |-> ws[2],
                active_console |-> 0, key |-> "None", mouse_pos |-> <<0, 0>>,
                left_click |-> FALSE, quitting |-> FALSE]
    /\ input = [mouse_pixel |-> <<0, 0>>, mouse_tile |-> <<>>,
                keys |-> [k \in Keys |-> "Up"],
                buttons |-> [b \in Buttons |-> "Up"],
                events |-> <<>>]
    /\ last = Call("new", <<>>, <<>>)
    /\ handles = [fonts |-> <<>>, consoles |-> <<>>]
    /\ panicked = FALSE
    /\ overflow_checks \in BOOLEAN
    /\ lock = [m \in Mutexes |-> NoThread]
    /\ pc = [t \in Threads |-> Idle]
    /\ nregs = [t \in Threads |-> 0]
    /\ acquired = [fonts |-> <<>>, consoles |-> <<>>]
    /\ returned = {}
    /\ loop = "NotStarted"

----------------------------------------------------------------------------
(* Construction: BTerm::init_raw. *)

\* Widths and heights handed to init_raw, of a type T wider than u32:
\* negative, zero, ordinary, the largest u32 and one more.
Dimensions == {0 - 1, 0, 4, UMax, UMax + 1}

\* What the backend's initializer does when it is called.
BackendOutcomes == {"Ok", "Err"}

\* A Result<BTerm>: the context's window size when Ok, the message when Err.
OkBTerm(w, h) == [ok |-> TRUE, width_pixels |-> w, height_pixels |-> h, err |-> ""]
Err(msg) == [ok |-> FALSE, width_pixels |-> 0, height_pixels |-> 0, err |-> msg]

\* value.try_into() to u32: Ok(value) when it is in the range of u32.
try_into(value) ==
    IF 0 <= value /\ value <= UMax THEN [ok |-> TRUE, v |-> value]
    ELSE [ok |-> FALSE, v |-> 0]

\* The backend's init_raw(w, h, window_title, platform_hints).
hal_init_raw(w, h, outcome) ==
    IF outcome = "Ok" THEN OkBTerm(w, h) ELSE Err("backend")

\* A call of the backend's initializer: its arguments and what it returned.
BackendCall(w, h, outcome) == [args |-> <<w, h>>, returned |-> hal_init_raw(w, h, outcome)]

\* init_raw unwrapping the conversions, as the quick initializers do.
init_raw_unwrap(width_pixels, height_pixels, outcome) ==
    /\ ~panicked
    /\ LET w == try_into(width_pixels)
           h == try_into(height_pixels)
           called == BackendCall(w.v, h.v, outcome)
       IN  IF w.ok /\ h.ok
           THEN /\ last' = Call("init_raw", <<width_pixels, height_pixels>>,
                                [result |-> called.returned, backend |-> <<called>>])
                /\ UNCHANGED panicked
           ELSE /\ last' = Call("init_raw", <<width_pixels, height_pixels>>,
                                [result |-> Err("panic"), backend |-> <<>>])
                /\ panicked' = TRUE
    /\ UNCHANGED <<fonts, consoles, ctx, input, handles, overflow_checks, tvars, loop>>

\* The result goes to last.ret with the calls made to the backend's
\* initializer; the `?` hands the backend's error on as it is.
init_raw(width_pixels, height_pixels, outcome) ==
    /\ ~panicked
    /\ LET w == try_into(width_pixels)
           h == try_into(height_pixels)
           called == BackendCall(w.v, h.v, outcome)
       IN  IF w.ok /\ h.ok
           THEN last' = Call("init_raw", <<width_pixels, height_pixels>>,
                             [result |-> called.returned, backend |-> <<called>>])
           ELSE last' = Call("init_raw", <<width_pixels, height_pixels>>,
                             [result |-> Err("Couldn't convert to u32"),
                              backend |-> <<>>])
    /\ UNCHANGED <<fonts, consoles, ctx, input, handles, panicked, overflow_checks,
                   tvars, loop>>

----------------------------------------------------------------------------
(* Registration. *)

register_font(font) ==
    /\ ~panicked
    /\ Len(fonts) < MaxFonts
    /\ fonts' = Append(fonts, font)
    /\ last' = Call("register_font", <<font>>, Len(fonts') - 1)
    /\ handles' = [handles EXCEPT !.fonts = Append(@, last'.ret)]
    /\ UNCHANGED <<consoles, ctx, input, panicked, overflow_checks, tvars, loop>>

\* register_console returning the length after the push instead of length - 1.
register_console_len(new_console, font_index) ==
    /\ ~panicked
    /\ Len(consoles) < MaxConsoles
    /\ consoles' = Append(consoles, DisplayConsole(new_console, 0, font_index))
    /\ last' = Call("register_console", <<new_console, font_index>>, Len(consoles'))
    /\ handles' = [handles EXCEPT !.consoles = Append(@, last'.ret)]
    /\ UNCHANGED <<fonts, ctx, input, panicked, overflow_checks, tvars, loop>>

register_console(new_console, font_index) ==
    /\ ~panicked
    /\ Len(consoles) < MaxConsoles
    /\ consoles' = Append(consoles, DisplayConsole(new_console, 0, font_index))
    /\ last' = Call("register_console", <<new_console, font_index>>, Len(consoles') - 1)
    /\ handles' = [handles EXCEPT !.consoles = Append(@, last'.ret)]
    /\ UNCHANGED <<fonts, ctx, input, panicked, overflow_checks, tvars, loop>>

\* register_console_no_bg with the shader of register_console.
register_console_no_bg_opaque(new_console, font_index) ==
    /\ ~panicked
    /\ Len(consoles) < MaxConsoles
    /\ consoles' = Append(consoles, DisplayConsole(new_console, 0, font_index))
    /\ last' = Call("register_console_no_bg", <<new_console, font_index>>,
                    Len(consoles') - 1)
    /\ handles' = [handles EXCEPT !.consoles = Append(@, last'.ret)]
    /\ UNCHANGED <<fonts, ctx, input, panicked, overflow_checks, tvars, loop>>

register_console_no_bg(new_console, font_index) ==
    /\ ~panicked
    /\ Len(consoles) < MaxConsoles
    /\ consoles' = Append(consoles, DisplayConsole(new_console, 1, font_index))
    /\ last' = Call("register_console_no_bg", <<new_console, font_index>>,
                    Len(consoles') - 1)
    /\ handles' = [handles EXCEPT !.consoles = Append(@, last'.ret)]
    /\ UNCHANGED <<fonts, ctx, input, panicked, overflow_checks, tvars, loop>>

set_active_console(id) ==
    /\ ~panicked
    /\ ctx' = [ctx EXCEPT !.active_console = id]
    /\ last' = Call("set_active_console", <<id>>, <<>>)
    /\ UNCHANGED <<fonts, consoles, input, handles, panicked, overflow_checks, tvars, loop>>

----------------------------------------------------------------------------
(* The Console trait on BTerm: resize, and the pass-through to the active  *)
(* console.                                                                *)

\* The out-of-bounds index going unnoticed: the call returns, nothing done.
IndexPanic_ignored(op, args) ==
    /\ ~ActiveValid
    /\ last' = Call(op, args, <<>>)
    /\ UNCHANGED <<fonts, consoles, ctx, input, handles, panicked, overflow_checks,
                   tvars, loop>>

\* A call that indexes bi.consoles[self.active_console] out of bounds panics,
\* holding the registry lock; nothing else has changed.
IndexPanic(op, args) ==
    /\ ~ActiveValid
    /\ panicked' = TRUE
    /\ last' = Call(op, args, "panic")
    /\ UNCHANGED <<fonts, consoles, ctx, input, handles, overflow_checks, tvars, loop>>

\* What a console does with a drawing call: it records it.
ConsoleDraw(console, d) == [console EXCEPT !.cells = Append(@, d)]

\* What a console does with resize_pixels(width, height).
ConsoleResize(console, width, height) ==
    [console EXCEPT !.px = <<width, height>>, !.resized = @ + 1]

\* The number of drawing calls the first n consoles have received.
RECURSIVE DrawsSoFar(_)
DrawsSoFar(n) ==
    IF n = 0 THEN 0 ELSE DrawsSoFar(n - 1) + Len(consoles[n].console.cells)

\* cls, cls_bg, print, print_color, set, set_bg, draw_box, ..., printer,
\* set_offset, set_scale: each locks the registry and hands the call to
\* consoles[active_console].console.
\* draw handing the call to the first console instead of the active one.
draw_first_console(d) ==
    /\ ~panicked
    /\ \/ IndexPanic(d, <<>>)
       \/ /\ ActiveValid
          /\ DrawsSoFar(Len(consoles)) < MaxDraws
          /\ consoles' = [consoles EXCEPT ![1].console = ConsoleDraw(@, d)]
          /\ last' = Call(d, <<>>, <<>>)
          /\ UNCHANGED <<fonts, ctx, input, handles, panicked, overflow_checks, tvars, loop>>

draw(d) ==
    /\ ~panicked
    /\ \/ IndexPanic(d, <<>>)
       \/ /\ ActiveValid
          /\ DrawsSoFar(Len(consoles)) < MaxDraws
          /\ consoles' = [consoles EXCEPT ![ctx.active_console + 1].console =
                                              ConsoleDraw(@, d)]
          /\ last' = Call(d, <<>>, <<>>)
          /\ UNCHANGED <<fonts, ctx, input, handles, panicked, overflow_checks, tvars, loop>>

\* xp_to_console draws the sprite's cells on the active console.
render_xp_sprite ==
    /\ ~panicked
    /\ \/ IndexPanic("render_xp_sprite", <<>>)
       \/ /\ ActiveValid
          /\ DrawsSoFar(Len(consoles)) < MaxDraws
          /\ consoles' = [consoles EXCEPT ![ctx.active_console + 1].console =
                                              ConsoleDraw(@, "xp_to_console")]
          /\ last' = Call("render_xp_sprite", <<>>, <<>>)
          /\ UNCHANGED <<fonts, ctx, input, handles, panicked, overflow_checks, tvars, loop>>

get_char_size ==
    /\ ~panicked
    /\ \/ IndexPanic("get_char_size", <<>>)
       \/ /\ ActiveValid
          /\ last' = Call("get_char_size", <<>>,
                          consoles[ctx.active_console + 1].console.size)
          /\ UNCHANGED <<fonts, consoles, ctx, input, handles, panicked,
                         overflow_checks, tvars, loop>>

\* resize_pixels telling the active console only.
resize_pixels_active_only(width, height) ==
    /\ ~panicked
    /\ \A i \in 1 .. Len(consoles) : consoles[i].console.resized < MaxResizes
    /\ ctx' = [ctx EXCEPT !.width_pixels = width, !.height_pixels = height]
    /\ consoles' = [i \in 1 .. Len(consoles) |->
                      IF i = ctx.active_console + 1
                      THEN [consoles[i] EXCEPT !.console = ConsoleResize(@, width, height)]
                      ELSE consoles[i]]
    /\ last' = Call("resize_pixels", <<width, height>>, <<>>)
    /\ UNCHANGED <<fonts, input, handles, panicked, overflow_checks, tvars, loop>>

resize_pixels(width, height) ==
    /\ ~panicked
    /\ \A i \in 1 .. Len(consoles) : consoles[i].console.resized < MaxResizes
    /\ ctx' = [ctx EXCEPT !.width_pixels = width, !.height_pixels = height]
    /\ consoles' = [i \in 1 .. Len(consoles) |->
                      [consoles[i] EXCEPT !.console = ConsoleResize(@, width, height)]]
    /\ last' = Call("resize_pixels", <<width, height>>, <<>>)
    /\ UNCHANGED <<fonts, input, handles, panicked, overflow_checks, tvars, loop>>

----------------------------------------------------------------------------
(* Export of the console stack. *)

\* console.to_xp_layer(): the layer of one console, a copy of its cells.
ToXpLayer(console) == [of |-> console.id, size |-> console.size, cells |-> console.cells]

\* s without its first n entries: iter().skip(n).
Skip(s, n) == IF Len(s) <= n THEN <<>> ELSE SubSeq(s, n + 1, Len(s))

to_xp_file(width, height) ==
    /\ ~panicked
    /\ \/ IndexPanic("to_xp_file", <<width, height>>)
       \/ /\ ActiveValid
          /\ LET first == <<ToXpLayer(consoles[ctx.active_console + 1].console)>>
                 rest  == IF Len(consoles) > 1
                          THEN [k \in 1 .. Len(consoles) - 1 |->
                                  ToXpLayer(Skip(consoles, 1)[k].console)]
                          ELSE <<>>
             IN  last' = Call("to_xp_file", <<width, height>>,
                              [width |-> width, height |-> height,
                               layers |-> first \o rest])
          /\ UNCHANGED <<fonts, consoles, ctx, input, handles, panicked,
                         overflow_checks, tvars, loop>>

----------------------------------------------------------------------------
(* Mouse: pixel position to tile position. *)

\* One coordinate as mouse_pos and on_mouse_position compute it:
\*   iclamp(m * dim as i32 / i32::max(1, win as i32), 0, dim as i32 - 1)
\* for the pixel coordinate m (i32), the grid dimension dim (u32) and the
\* window dimension win (u32).
TileCoord(m, dim, win, checks) ==
    LET prod == MulI32(m, AsI32(dim), checks)
        quot == DivI32(prod.v, Max(1, AsI32(win)))
        top  == SubI32(AsI32(dim), 1, checks)
    IN  IF prod.panic \/ quot.panic \/ top.panic
        THEN Panic
        ELSE Ok(iclamp(quot.v, 0, top.v))

\* One coordinate as mouse_point computes it:
\*   iclamp(m * dim as i32 / win.max(1) as i32, 0, dim as i32 - 1)
PointCoord(m, dim, win, checks) ==
    LET prod == MulI32(m, AsI32(dim), checks)
        quot == DivI32(prod.v, AsI32(Max(win, 1)))
        top  == SubI32(AsI32(dim), 1, checks)
    IN  IF prod.panic \/ quot.panic \/ top.panic
        THEN Panic
        ELSE Ok(iclamp(quot.v, 0, top.v))

\* Both coordinates of context c on a console of grid size `size`.
TilePos(c, size, checks) ==
    LET x == TileCoord(c.mouse_pos[1], size[1], c.width_pixels, checks)
        y == TileCoord(c.mouse_pos[2], size[2], c.height_pixels, checks)
    IN  IF x.panic \/ y.panic THEN Panic ELSE Ok(<<x.v, y.v>>)

PointPos(c, size, checks) ==
    LET x == PointCoord(c.mouse_pos[1], size[1], c.width_pixels, checks)
        y == PointCoord(c.mouse_pos[2], size[2], c.height_pixels, checks)
    IN  IF x.panic \/ y.panic THEN Panic ELSE Ok(<<x.v, y.v>>)

mouse_pos ==
    /\ ~panicked
    /\ \/ IndexPanic("mouse_pos", <<>>)
       \/ /\ ActiveValid
          /\ LET r == TilePos(ctx, consoles[ctx.active_console + 1].console.size,
                              overflow_checks)
             IN  /\ panicked' = r.panic
                 /\ last' = Call("mouse_pos", <<>>, r.v)
          /\ UNCHANGED <<fonts, consoles, ctx, input, handles, overflow_checks, tvars, loop>>

mouse_point ==
    /\ ~panicked
    /\ \/ IndexPanic("mouse_point", <<>>)
       \/ /\ ActiveValid
          /\ LET r == PointPos(ctx, consoles[ctx.active_console + 1].console.size,
                               overflow_checks)
             IN  /\ panicked' = r.panic
                 /\ last' = Call("mouse_point", <<>>, r.v)
          /\ UNCHANGED <<fonts, consoles, ctx, input, handles, overflow_checks, tvars, loop>>

\* input.on_mouse_tile_position(i, x, y): the tile position of console i.
on_mouse_tile_position(tiles, i, pos) ==
    [k \in 1 .. Max(Len(tiles), i + 1) |->
        IF k = i + 1 THEN pos ELSE IF k <= Len(tiles) THEN tiles[k] ELSE <<0, 0>>]

\* The loop of on_mouse_position over consoles.iter().skip(1).
RECURSIVE Cascade_skip_first(_, _, _, _)
Cascade_skip_first(tiles, c, n, checks) ==
    IF n <= 1 THEN tiles
    ELSE on_mouse_tile_position(Cascade_skip_first(tiles, c, n - 1, checks), n - 1,
                                TilePos(c, consoles[n].console.size, checks).v)

\* The tile table after the loop of on_mouse_position has run over the
\* consoles with index < n, computing for context c.
RECURSIVE Cascade(_, _, _, _)
Cascade(tiles, c, n, checks) ==
    IF n = 0 THEN tiles
    ELSE on_mouse_tile_position(Cascade(tiles, c, n - 1, checks), n - 1,
                                TilePos(c, consoles[n].console.size, checks).v)

\* The consoles (1-based) whose tile position panics for context c.
Panicking(c, checks) ==
    {i \in 1 .. Len(consoles) : TilePos(c, consoles[i].console.size, checks).panic}

SetMin(S) == CHOOSE m \in S : \A n \in S : m <= n

\* on_mouse_position recording the tile position of the active console only.
on_mouse_position_active_only(x, y) ==
    /\ ~panicked
    /\ LET c == [ctx EXCEPT !.mouse_pos = <<F64AsI32(x), F64AsI32(y)>>]
           a == ctx.active_console
           r == IF ValidIndex(a)
                THEN TilePos(c, consoles[a + 1].console.size, overflow_checks)
                ELSE Panic
       IN  /\ ctx' = c
           /\ input' = [input EXCEPT
                          !.mouse_pixel = <<x, y>>,
                          !.mouse_tile = IF r.panic THEN @
                                         ELSE on_mouse_tile_position(@, a, r.v)]
           /\ panicked' = r.panic
    /\ last' = Call("on_mouse_position", <<x, y>>, <<>>)
    /\ UNCHANGED <<fonts, consoles, handles, overflow_checks, tvars, loop>>

on_mouse_position(x, y) ==
    /\ ~panicked
    /\ LET c    == [ctx EXCEPT !.mouse_pos = <<F64AsI32(x), F64AsI32(y)>>]
           bad  == Panicking(c, overflow_checks)
           done == IF bad = {} THEN Len(consoles) ELSE SetMin(bad) - 1
       IN  /\ ctx' = c
           /\ input' = [input EXCEPT
                          !.mouse_pixel = <<x, y>>,
                          !.mouse_tile = Cascade(@, c, done, overflow_checks)]
           /\ panicked' = (bad # {})
    /\ last' = Call("on_mouse_position", <<x, y>>, <<>>)
    /\ UNCHANGED <<fonts, consoles, handles, overflow_checks, tvars, loop>>

----------------------------------------------------------------------------
(* Keys, mouse buttons and raw events: the callbacks of the backend. *)

\* input.on_key_down(key, scan_code) and input.on_key_up(key, scan_code): the
\* key-state table of INPUT.
on_key_down(keys, key, scan_code) == [keys EXCEPT ![key] = "Down"]
on_key_up(keys, key, scan_code) == [keys EXCEPT ![key] = "Up"]

\* input.on_mouse_button_down(button_num) and input.on_mouse_button_up(button_num).
on_mouse_button_down(buttons, button_num) == [buttons EXCEPT ![button_num] = "Down"]
on_mouse_button_up(buttons, button_num) == [buttons EXCEPT ![button_num] = "Up"]

\* input.push_event(event): the event goes to the end of the log.
push_event(events, event) == Append(events, event)

\* BEvent::KeyboardInput { key, scan_code, pressed }
KeyboardInput(key, scan_code, pressed) ==
    [type |-> "KeyboardInput", key |-> key, scan_code |-> scan_code, pressed |-> pressed]

\* BEvent::MouseClick { button, pressed }
MouseClick(button, pressed) ==
    [type |-> "MouseClick", button |-> button, pressed |-> pressed]

\* on_key recording the key and its state without pushing the event.
on_key_no_push(key, scan_code, pressed) ==
    /\ ~panicked
    /\ Len(input.events) < MaxEvents
    /\ ctx' = [ctx EXCEPT !.key = key]
    /\ input' = [input EXCEPT
                   !.keys = IF pressed THEN on_key_down(@, key, scan_code)
                            ELSE on_key_up(@, key, scan_code)]
    /\ last' = Call("on_key", <<key, scan_code, pressed>>, <<>>)
    /\ UNCHANGED <<fonts, consoles, handles, panicked, overflow_checks, tvars, loop>>

\* on_key taking every event for a press.
on_key_always_down(key, scan_code, pressed) ==
    /\ ~panicked
    /\ Len(input.events) < MaxEvents
    /\ ctx' = [ctx EXCEPT !.key = key]
    /\ input' = [input EXCEPT
                   !.keys = on_key_down(@, key, scan_code),
                   !.events = push_event(@, KeyboardInput(key, scan_code, pressed))]
    /\ last' = Call("on_key", <<key, scan_code, pressed>>, <<>>)
    /\ UNCHANGED <<fonts, consoles, handles, panicked, overflow_checks, tvars, loop>>

on_key(key, scan_code, pressed) ==
    /\ ~panicked
    /\ Len(input.events) < MaxEvents
    /\ ctx' = [ctx EXCEPT !.key = key]
    /\ input' = [input EXCEPT
                   !.keys = IF pressed THEN on_key_down(@, key, scan_code)
                            ELSE on_key_up(@, key, scan_code),
                   !.events = push_event(@, KeyboardInput(key, scan_code, pressed))]
    /\ last' = Call("on_key", <<key, scan_code, pressed>>, <<>>)
    /\ UNCHANGED <<fonts, consoles, handles, panicked, overflow_checks, tvars, loop>>

\* on_mouse_button taking left_click from the state of button 0.
on_mouse_button_left_pressed(button_num, pressed) ==
    /\ ~panicked
    /\ Len(input.events) < MaxEvents
    /\ ctx' = IF button_num = 0 THEN [ctx EXCEPT !.left_click = pressed] ELSE ctx
    /\ input' = [input EXCEPT
                   !.buttons = IF pressed THEN on_mouse_button_down(@, button_num)
                               ELSE on_mouse_button_up(@, button_num),
                   !.events = push_event(@, MouseClick(button_num, pressed))]
    /\ last' = Call("on_mouse_button", <<button_num, pressed>>, <<>>)
    /\ UNCHANGED <<fonts, consoles, handles, panicked, overflow_checks, tvars, loop>>

on_mouse_button(button_num, pressed) ==
    /\ ~panicked
    /\ Len(input.events) < MaxEvents
    /\ ctx' = IF button_num = 0 THEN [ctx EXCEPT !.left_click = TRUE] ELSE ctx
    /\ input' = [input EXCEPT
                   !.buttons = IF pressed THEN on_mouse_button_down(@, button_num)
                               ELSE on_mouse_button_up(@, button_num),
                   !.events = push_event(@, MouseClick(button_num, pressed))]
    /\ last' = Call("on_mouse_button", <<button_num, pressed>>, <<>>)
    /\ UNCHANGED <<fonts, consoles, handles, panicked, overflow_checks, tvars, loop>>

on_event(event) ==
    /\ ~panicked
    /\ Len(input.events) < MaxEvents
    /\ input' = [input EXCEPT !.events = push_event(@, event)]
    /\ last' = Call("on_event", <<event>>, <<>>)
    /\ UNCHANGED <<fonts, consoles, ctx, handles, panicked, overflow_checks, tvars, loop>>

\* quit leaving the flag as it is.
quit_ignored ==
    /\ ~panicked
    /\ last' = Call("quit", <<>>, <<>>)
    /\ UNCHANGED <<fonts, consoles, ctx, input, handles, panicked, overflow_checks,
                   tvars, loop>>

quit ==
    /\ ~panicked
    /\ ctx' = [ctx EXCEPT !.quitting = TRUE]
    /\ last' = Call("quit", <<>>, <<>>)
    /\ UNCHANGED <<fonts, consoles, input, handles, panicked, overflow_checks, tvars, loop>>

----------------------------------------------------------------------------
(* The context used from one thread: the registrations, with every font    *)
(* index and both shaders.  No arithmetic is done here and in the next     *)
(* specification: one build and one initial window size stand for all.     *)

InitRegistry == Init /\ ~overflow_checks /\ ctx.width_pixels = 4

NextRegister ==
    \/ \E font \in Fonts : register_font(font)
    \/ \E font_index \in FontIds :
         register_console(NewConsole(Len(consoles), <<3, 2>>), font_index)
    \/ \E font_index \in FontIds :
         register_console_no_bg(NewConsole(Len(consoles), <<3, 2>>), font_index)
    \/ \E id \in ConsoleIds : set_active_console(id)
    \/ get_char_size

SpecRegister == InitRegistry /\ [][NextRegister]_vars

----------------------------------------------------------------------------
(* The context used from one thread: drawing, resizing and export over the *)
(* registered consoles.                                                    *)

NextDraw ==
    \/ register_console(NewConsole(Len(consoles), <<3, 2>>), 0)
    \/ \E id \in ConsoleIds : set_active_console(id)
    \/ \E d \in DrawCalls : draw(d)
    \/ render_xp_sprite
    \/ \E ws \in WindowSizes : resize_pixels(ws[1], ws[2])
    \/ to_xp_file(80, 50)

SpecDraw == InitRegistry /\ [][NextDraw]_vars

----------------------------------------------------------------------------
(* The context used from one thread: the mouse, over consoles of every     *)
(* grid size, windows of every size and any active console.                *)

NextMouse ==
    \/ \E size \in GridSizes : register_console(NewConsole(Len(consoles), size), 0)
    \/ \E id \in ConsoleIds : set_active_console(id)
    \/ \E ws \in WindowSizes : resize_pixels(ws[1], ws[2])
    \/ mouse_pos
    \/ mouse_point
    \/ \E p \in MousePositions : on_mouse_position(p[1], p[2])

SpecMouse == Init /\ [][NextMouse]_vars

----------------------------------------------------------------------------
(* The mouse over ordinary consoles only: a grid of 3 by 2 tiles, in        *)
(* windows of 4 by 3 pixels or of no size.                                 *)

InitOrdinary == Init /\ <<ctx.width_pixels, ctx.height_pixels>> = <<4, 3>>

NextMouseOrdinary ==
    \/ register_console(NewConsole(Len(consoles), <<3, 2>>), 0)
    \/ \E id \in ConsoleIds : set_active_console(id)
    \/ \E ws \in {<<0, 0>>, <<4, 3>>} : resize_pixels(ws[1], ws[2])
    \/ mouse_pos
    \/ \E p \in MousePositions : on_mouse_position(p[1], p[2])

SpecMouseOrdinary == InitOrdinary /\ [][NextMouseOrdinary]_vars

----------------------------------------------------------------------------
(* The backend's callbacks on one thread: keys, buttons, raw events and    *)
(* mouse moves, in any order, while consoles are registered.               *)

NextInput ==
    \/ \E key \in Keys, pressed \in BOOLEAN : on_key(key, ScanCode(key), pressed)
    \/ \E button_num \in Buttons, pressed \in BOOLEAN : on_mouse_button(button_num, pressed)
    \/ \E event \in RawEvents : on_event(event)
    \/ on_mouse_position(5, 0 - 3)
    \/ register_console(NewConsole(Len(consoles), <<3, 2>>), 0)

SpecInput == InitRegistry /\ [][NextInput]_vars

----------------------------------------------------------------------------
(* The calls that use the active console, drawing and queries alike, with  *)
(* the active index set to registered and to unregistered positions.       *)

NextActive ==
    \/ register_console(NewConsole(Len(consoles), <<3, 2>>), 0)
    \/ \E id \in ConsoleIds : set_active_console(id)
    \/ \E d \in DrawCalls : draw(d)
    \/ render_xp_sprite
    \/ get_char_size
    \/ mouse_pos
    \/ mouse_point
    \/ to_xp_file(80, 50)

SpecActive == InitRegistry /\ [][NextActive]_vars

----------------------------------------------------------------------------
(* Construction with every kind of width and height and either outcome of  *)
(* the backend.                                                            *)

NextInit ==
    \E width_pixels, height_pixels \in Dimensions, outcome \in BackendOutcomes :
        init_raw(width_pixels, height_pixels, outcome)

SpecInit == Init /\ [][NextInit]_vars

----------------------------------------------------------------------------
(* The loop driver.  main_loop hands the context and the application's     *)
(* state to the backend's loop, which calls tick(context) again and again, *)
(* pumps the backend's events between the ticks and looks at the quitting  *)
(* flag after each tick.                                                   *)

main_loop ==
    /\ ~panicked
    /\ loop = "NotStarted"
    /\ loop' = "Running"
    /\ UNCHANGED <<fonts, consoles, ctx, input, last, handles, panicked,
                   overflow_checks, tvars>>

\* The loop calls gamestate.tick(&mut bterm).
tick_begin ==
    /\ ~panicked
    /\ loop = "Running"
    /\ loop' = "InTick"
    /\ UNCHANGED <<fonts, consoles, ctx, input, last, handles, panicked,
                   overflow_checks, tvars>>

\* tick returns; the loop ends when it finds the flag set.
tick_return ==
    /\ ~panicked
    /\ loop = "InTick"
    /\ loop' = IF ctx.quitting THEN "Done" ELSE "Running"
    /\ UNCHANGED <<fonts, consoles, ctx, input, last, handles, panicked,
                   overflow_checks, tvars>>

\* Before the loop the application registers its consoles; in a tick it
\* draws, changes the active console and may quit; between two ticks the
\* backend delivers events.
NextLoop ==
    \/ loop = "NotStarted" /\ register_console(NewConsole(Len(consoles), <<3, 2>>), 0)
    \/ main_loop
    \/ tick_begin
    \/ loop = "InTick" /\ \E d \in DrawCalls : draw(d)
    \/ loop = "InTick" /\ \E id \in ConsoleIds : set_active_console(id)
    \/ loop = "InTick" /\ quit
    \/ tick_return
    \/ loop = "Running" /\ \E event \in RawEvents : on_event(event)

SpecLoop == InitRegistry /\ [][NextLoop]_vars

\* Every tick returns.
SpecLoopFair == SpecLoop /\ WF_vars(tick_return)

----------------------------------------------------------------------------
(* iclamp on its own, as test_iclamp calls it, with values at the ends of  *)
(* the i32 range and around zero for each of its three arguments.          *)

ClampValues == {IMin, 0 - 5, 0 - 1, 0, 1, 2, 5, IMax}

iclamp_call(val, min, max) ==
    /\ ~panicked
    /\ last' = Call("iclamp", <<val, min, max>>, iclamp(val, min, max))
    /\ UNCHANGED <<fonts, consoles, ctx, input, handles, panicked, overflow_checks,
                   tvars, loop>>

NextClamp == \E val, min, max \in ClampValues : iclamp_call(val, min, max)

SpecClamp == InitRegistry /\ [][NextClamp]_vars

----------------------------------------------------------------------------
(* The console table under every call that works on it: registrations of   *)
(* both kinds and of fonts, drawing, resizing and mouse moves.             *)

NextSlots ==
    \/ register_font("terminal8x8")
    \/ \E font_index \in FontIds :
         register_console(NewConsole(Len(consoles), <<3, 2>>), font_index)
    \/ \E font_index \in FontIds :
         register_console_no_bg(NewConsole(Len(consoles), <<3, 2>>), font_index)
    \/ draw("cls")
    \/ resize_pixels(4, 3)
    \/ on_mouse_position(5, 0 - 3)

SpecSlots == InitRegistry /\ [][NextSlots]_vars

----------------------------------------------------------------------------
(* The left_click flag under mouse buttons and under the other kinds of    *)
(* call: a key, a mouse move, a resize, drawing, a registration.           *)

NextClick ==
    \/ \E pressed \in BOOLEAN : on_mouse_button(0, pressed)
    \/ on_mouse_button(1, TRUE)
    \/ on_key("A", ScanCode("A"), TRUE)
    \/ on_mouse_position(5, 0 - 3)
    \/ resize_pixels(4, 3)
    \/ draw("cls")
    \/ register_console(NewConsole(Len(consoles), <<3, 2>>), 0)

SpecClick == InitRegistry /\ [][NextClick]_vars

----------------------------------------------------------------------------
(* The calls as several threads run them: what each call does with the two *)
(* Mutexes, step by step.  `lock m` is m.lock().unwrap(), `unlock m` the    *)
(* drop of the guard; between them the call works on what the Mutex         *)
(* guards.  A registration's work is followed in its two parts, the push    *)
(* and the reading of the length; the work of the other calls is what the   *)
(* specifications above describe and is one step here.                      *)

LockStep(m) == <<"lock", m>>
UnlockStep(m) == <<"unlock", m>>
WorkStep(m) == <<"work", m>>
PushStep(table, shader_index) == <<"push", table, shader_index>>
LenStep(table) == <<"len", table>>

register_font_steps ==
    <<LockStep("BACKEND_INTERNAL"), PushStep("fonts", 0), LenStep("fonts"),
      UnlockStep("BACKEND_INTERNAL")>>

register_console_steps ==
    <<LockStep("BACKEND_INTERNAL"), PushStep("consoles", 0), LenStep("consoles"),
      UnlockStep("BACKEND_INTERNAL")>>

register_console_no_bg_steps ==
    <<LockStep("BACKEND_INTERNAL"), PushStep("consoles", 1), LenStep("consoles"),
      UnlockStep("BACKEND_INTERNAL")>>

\* set_active_console and quit write fields of the thread's own BTerm.
set_active_console_steps == <<WorkStep("self")>>

quit_steps == <<WorkStep("self")>>

\* The lock, the indexing of consoles[active_console] and the console's own
\* method in one statement; the guard is dropped at its end.
pass_through_steps ==
    <<LockStep("BACKEND_INTERNAL"), WorkStep("BACKEND_INTERNAL"),
      UnlockStep("BACKEND_INTERNAL")>>

get_char_size_steps ==
    <<LockStep("BACKEND_INTERNAL"), WorkStep("BACKEND_INTERNAL"),
      UnlockStep("BACKEND_INTERNAL")>>

\* resize_pixels with a forwarded drawing call inside its loop over the
\* consoles.
resize_pixels_steps_redraw ==
    <<WorkStep("self"), LockStep("BACKEND_INTERNAL"), WorkStep("BACKEND_INTERNAL"),
      LockStep("BACKEND_INTERNAL"), WorkStep("BACKEND_INTERNAL"),
      UnlockStep("BACKEND_INTERNAL"), UnlockStep("BACKEND_INTERNAL")>>

\* The loop calls each console's own resize_pixels, not the context's methods.
resize_pixels_steps ==
    <<WorkStep("self"), LockStep("BACKEND_INTERNAL"), WorkStep("BACKEND_INTERNAL"),
      UnlockStep("BACKEND_INTERNAL")>>

mouse_pos_steps ==
    <<LockStep("BACKEND_INTERNAL"), WorkStep("BACKEND_INTERNAL"),
      UnlockStep("BACKEND_INTERNAL")>>

mouse_point_steps ==
    <<LockStep("BACKEND_INTERNAL"), WorkStep("BACKEND_INTERNAL"),
      UnlockStep("BACKEND_INTERNAL")>>

render_xp_sprite_steps ==
    <<LockStep("BACKEND_INTERNAL"), WorkStep("BACKEND_INTERNAL"),
      UnlockStep("BACKEND_INTERNAL")>>

\* The layers are taken with the consoles' own to_xp_layer.
to_xp_file_steps ==
    <<LockStep("BACKEND_INTERNAL"), WorkStep("BACKEND_INTERNAL"),
      UnlockStep("BACKEND_INTERNAL")>>

\* on_key with a forwarded drawing call made while it holds the input lock.
on_key_steps_redraw ==
    <<WorkStep("self"), LockStep("INPUT"), WorkStep("INPUT"),
      LockStep("BACKEND_INTERNAL"), WorkStep("BACKEND_INTERNAL"),
      UnlockStep("BACKEND_INTERNAL"), UnlockStep("INPUT")>>

on_key_steps ==
    <<WorkStep("self"), LockStep("INPUT"), WorkStep("INPUT"), UnlockStep("INPUT")>>

on_mouse_button_steps ==
    <<WorkStep("self"), LockStep("INPUT"), WorkStep("INPUT"), UnlockStep("INPUT")>>

\* bi is taken first and input second; the guards are dropped in the reverse
\* order at the end of the function.
on_mouse_position_steps ==
    <<LockStep("BACKEND_INTERNAL"), WorkStep("self"), LockStep("INPUT"),
      WorkStep("INPUT"), UnlockStep("INPUT"), UnlockStep("BACKEND_INTERNAL")>>

on_event_steps == <<LockStep("INPUT"), WorkStep("INPUT"), UnlockStep("INPUT")>>

ThreadOps ==
    {"register_font", "register_console", "register_console_no_bg",
     "set_active_console", "quit", "pass_through", "get_char_size",
     "resize_pixels", "mouse_pos", "mouse_point", "render_xp_sprite",
     "to_xp_file", "on_key", "on_mouse_button", "on_mouse_position", "on_event"}

StepsOf(op) ==
    CASE op = "register_font" -> register_font_steps
      [] op = "register_console" -> register_console_steps
      [] op = "register_console_no_bg" -> register_console_no_bg_steps
      [] op = "set_active_console" -> set_active_console_steps
      [] op = "quit" -> quit_steps
      [] op = "pass_through" -> pass_through_steps
      [] op = "get_char_size" -> get_char_size_steps
      [] op = "resize_pixels" -> resize_pixels_steps
      [] op = "mouse_pos" -> mouse_pos_steps
      [] op = "mouse_point" -> mouse_point_steps
      [] op = "render_xp_sprite" -> render_xp_sprite_steps
      [] op = "to_xp_file" -> to_xp_file_steps
      [] op = "on_key" -> on_key_steps
      [] op = "on_mouse_button" -> on_mouse_button_steps
      [] op = "on_mouse_position" -> on_mouse_position_steps
      [] op = "on_event" -> on_event_steps

InCall(t) == pc[t] # Idle

\* The step thread t is to take next.
NextStep(t) == Head(pc[t])

\* Thread t past its step: at the next one, or returned from the call.
Advance(t) == [pc EXCEPT ![t] = Tail(@)]

\* The registration thread t is in: what it registers is known by it.
Token(t) == <<t, nregs[t]>>

\* The table a registration pushes to.
TableOf(op) == IF op = "register_font" THEN "fonts" ELSE "consoles"

IsRegistration(op) ==
    op \in {"register_font", "register_console", "register_console_no_bg"}

\* The registrations begun so far by the threads 1 .. n.
RECURSIVE Registrations(_)
Registrations(n) == IF n = 0 THEN 0 ELSE Registrations(n - 1) + nregs[n]

Begin(t, op) ==
    /\ ~InCall(t)
    /\ IsRegistration(op) => Registrations(NThreads) < MaxRegistrations
    /\ pc' = [pc EXCEPT ![t] = StepsOf(op)]
    /\ nregs' = [nregs EXCEPT ![t] = IF IsRegistration(op) THEN @ + 1 ELSE @]
    /\ UNCHANGED <<fonts, consoles, ctx, input, last, handles, panicked,
                   overflow_checks, loop, lock, acquired, returned>>

\* The table of the registration whose lock step is followed by `rest`, or
\* "none" for the lock step of another call.
LockedFor(rest) ==
    IF rest # <<>> /\ Head(rest)[1] = "push" THEN Head(rest)[2] ELSE "none"

\* lock() without waiting for the Mutex to be free.
Acquire_unguarded(t) ==
    /\ InCall(t)
    /\ NextStep(t)[1] = "lock"
    /\ lock' = [lock EXCEPT ![NextStep(t)[2]] = t]
    /\ acquired' = IF LockedFor(Tail(pc[t])) # "none"
                   THEN [acquired EXCEPT ![LockedFor(Tail(pc[t]))] = Append(@, Token(t))]
                   ELSE acquired
    /\ pc' = Advance(t)
    /\ UNCHANGED <<fonts, consoles, ctx, input, last, handles, panicked,
                   overflow_checks, loop, nregs, returned>>

\* Mutex::lock: the thread waits until the Mutex is free, also when it is the
\* thread itself that holds it.
Acquire(t) ==
    /\ InCall(t)
    /\ NextStep(t)[1] = "lock"
    /\ lock[NextStep(t)[2]] = NoThread
    /\ lock' = [lock EXCEPT ![NextStep(t)[2]] = t]
    /\ acquired' = IF LockedFor(Tail(pc[t])) # "none"
                   THEN [acquired EXCEPT ![LockedFor(Tail(pc[t]))] = Append(@, Token(t))]
                   ELSE acquired
    /\ pc' = Advance(t)
    /\ UNCHANGED <<fonts, consoles, ctx, input, last, handles, panicked,
                   overflow_checks, loop, nregs, returned>>

Release(t) ==
    /\ InCall(t)
    /\ NextStep(t)[1] = "unlock"
    /\ lock' = [lock EXCEPT ![NextStep(t)[2]] = NoThread]
    /\ pc' = Advance(t)
    /\ UNCHANGED <<fonts, consoles, ctx, input, last, handles, panicked,
                   overflow_checks, loop, nregs, acquired, returned>>

Work(t) ==
    /\ InCall(t)
    /\ NextStep(t)[1] = "work"
    /\ pc' = Advance(t)
    /\ UNCHANGED <<fonts, consoles, ctx, input, last, handles, panicked,
                   overflow_checks, loop, lock, nregs, acquired, returned>>

\* bi.fonts.push(font) and bi.consoles.push(DisplayConsole { .. }).
Push(t) ==
    /\ InCall(t)
    /\ NextStep(t)[1] = "push"
    /\ IF NextStep(t)[2] = "fonts"
       THEN /\ fonts' = Append(fonts, Token(t))
            /\ UNCHANGED consoles
       ELSE /\ consoles' = Append(consoles,
                 DisplayConsole(NewConsole(Token(t), <<3, 2>>), NextStep(t)[3], 0))
            /\ UNCHANGED fonts
    /\ pc' = Advance(t)
    /\ UNCHANGED <<ctx, input, last, handles, panicked, overflow_checks,
                   loop, lock, nregs, acquired, returned>>

\* bi.fonts.len() - 1 and bi.consoles.len() - 1: the value the call returns.
ReadLen(t) ==
    /\ InCall(t)
    /\ NextStep(t)[1] = "len"
    /\ returned' = returned \cup
         {[table |-> NextStep(t)[2], token |-> Token(t),
           index |-> (IF NextStep(t)[2] = "fonts" THEN Len(fonts) ELSE Len(consoles)) - 1]}
    /\ pc' = Advance(t)
    /\ UNCHANGED <<fonts, consoles, ctx, input, last, handles, panicked,
                   overflow_checks, loop, lock, nregs, acquired>>

NextThreads ==
    \E t \in Threads :
        \/ \E op \in ThreadOps : Begin(t, op)
        \/ Acquire(t)
        \/ Release(t)
        \/ Work(t)
        \/ Push(t)
        \/ ReadLen(t)

SpecThreads == InitRegistry /\ [][NextThreads]_vars

----------------------------------------------------------------------------
(* Properties. *)

DrawOps == DrawCalls \cup {"render_xp_sprite"}

\* A step of a forwarded drawing call that returns.
DrawStep == last'.op \in DrawOps /\ ~panicked'

\* What the console receives for the context's call op.
Received(op) == IF op = "render_xp_sprite" THEN "xp_to_console" ELSE op

\* C1: set_active_console(i) makes i the active console, and a drawing call
\* made through the context while a registered console i is active is
\* received by console i and changes no other registered console, whichever
\* consoles were active before.
C1_DrawGoesToActiveOnly ==
    [][ /\ last'.op = "set_active_console" => ctx'.active_console = last'.args[1]
        /\ DrawStep =>
            /\ Len(consoles') = Len(consoles)
            /\ \A k \in 1 .. Len(consoles) :
                 IF k = ctx.active_console + 1
                 THEN /\ consoles'[k].console.cells =
                           Append(consoles[k].console.cells, Received(last'.op))
                      /\ consoles'[k].console.id = consoles[k].console.id
                 ELSE consoles'[k] = consoles[k] ]_vars

\* Two consoles have each received a drawing call, the latest through the
\* context with the second console active.
C1_Witness ==
    /\ Len(consoles) >= 2
    /\ ctx.active_console = 1
    /\ last.op \in DrawOps
    /\ ~panicked
    /\ Len(consoles[1].console.cells) = 1
    /\ Len(consoles[2].console.cells) = 1

StrictlyIncreasing(s) == \A j, k \in 1 .. Len(s) : j < k => s[j] < s[k]

\* C2: the indices returned by register_font, and those returned by
\* register_console and register_console_no_bg, are strictly increasing (so
\* none is returned twice), and the index a registration returns is the
\* position of the entry it has just stored.
C2_HandlesIncreaseAndLocate ==
    /\ StrictlyIncreasing(handles.fonts)
    /\ StrictlyIncreasing(handles.consoles)
    /\ last.op = "register_font" =>
         /\ last.ret = handles.fonts[Len(handles.fonts)]
         /\ last.ret + 1 \in 1 .. Len(fonts)
         /\ fonts[last.ret + 1] = last.args[1]
    /\ last.op \in {"register_console", "register_console_no_bg"} =>
         /\ last.ret = handles.consoles[Len(handles.consoles)]
         /\ last.ret + 1 \in 1 .. Len(consoles)
         /\ consoles[last.ret + 1].console = last.args[1]
         /\ consoles[last.ret + 1].font_index = last.args[2]

\* Two fonts and two consoles, one of each shader, have been registered.
C2_Witness ==
    /\ handles.fonts = <<0, 1>>
    /\ handles.consoles = <<0, 1>>
    /\ last.op = "register_console_no_bg"
    /\ consoles[1].shader_index = 0

\* The indices 0 .. n-1 without a, in order.
RECURSIVE Others(_, _)
Others(n, a) ==
    IF n = 0 THEN <<>>
    ELSE IF n - 1 = a THEN Others(n - 1, a) ELSE Append(Others(n - 1, a), n - 1)

\* The layers of the file the export is to produce: the active console's,
\* then those of the other consoles in registration order.
StackLayers ==
    LET rest == Others(Len(consoles), ctx.active_console)
    IN  <<ToXpLayer(consoles[ctx.active_console + 1].console)>> \o
        [k \in 1 .. Len(rest) |-> ToXpLayer(consoles[rest[k] + 1].console)]

\* C4: the file to_xp_file returns holds one layer per registered console,
\* the active console's first and then the other consoles' in registration
\* order, none missing and none twice.
C4_ExportHoldsEveryConsoleOnce ==
    (last.op = "to_xp_file" /\ ~panicked) => last.ret.layers = StackLayers

\* C5: when resize_pixels(w, h) returns, the context's pixel size is (w, h)
\* and every registered console, active or not, has received
\* resize_pixels(w, h) exactly once more than before.
C5_ResizeReachesEveryConsole ==
    [][ last'.op = "resize_pixels" =>
          /\ ctx'.width_pixels = last'.args[1]
          /\ ctx'.height_pixels = last'.args[2]
          /\ Len(consoles') = Len(consoles)
          /\ \A k \in 1 .. Len(consoles) :
               /\ consoles'[k].console.resized = consoles[k].console.resized + 1
               /\ consoles'[k].console.px = last'.args ]_vars

\* A resize has returned with two consoles registered and the second active.
C5_Witness ==
    /\ last.op = "resize_pixels"
    /\ Len(consoles) >= 2
    /\ ctx.active_console = 1
    /\ \A k \in 1 .. Len(consoles) :
         consoles[k].console.resized = 1 /\ consoles[k].console.px = last.args
    /\ ctx.width_pixels = last.args[1]

\* v lies in [0, dim - 1].
InGrid(v, dim) == 0 <= v /\ v <= dim - 1

\* The tile position pos lies on the grid of size `size`.
OnGrid(pos, size) == InGrid(pos[1], size[1]) /\ InGrid(pos[2], size[2])

ActiveSize == consoles[ctx.active_console + 1].console.size

\* C3 as claimed: whatever the pixel position, the window size and the grid
\* size, the coordinates mouse_pos and mouse_point return, and those
\* on_mouse_position records for a console, lie in [0, grid_dim - 1] of the
\* console concerned.
C3_TileAlwaysOnGrid ==
    /\ (last.op \in {"mouse_pos", "mouse_point"} /\ ~panicked) =>
         OnGrid(last.ret, ActiveSize)
    /\ \A i \in 1 .. Len(input.mouse_tile) :
         OnGrid(input.mouse_tile[i], consoles[i].console.size)

\* A coordinate for a grid dimension of at least 1 lies in [0, dim - 1]; for
\* a dimension of 0, where there is no such coordinate, it is 0.
InGridOrZero(v, dim) == IF dim >= 1 THEN InGrid(v, dim) ELSE v = 0

OnGridOrZero(pos, size) ==
    InGridOrZero(pos[1], size[1]) /\ InGridOrZero(pos[2], size[2])

\* C3 as amended: whatever the pixel position and the window size, each
\* coordinate mouse_pos and mouse_point return, and each on_mouse_position
\* records for a console, lies in [0, grid_dim - 1] when that grid dimension
\* is at least 1, and is 0 when the grid dimension is 0.
C3_TileOnGridUnlessEmpty ==
    /\ (last.op \in {"mouse_pos", "mouse_point"} /\ ~panicked) =>
         OnGridOrZero(last.ret, ActiveSize)
    /\ \A i \in 1 .. Len(input.mouse_tile) :
         OnGridOrZero(input.mouse_tile[i], consoles[i].console.size)

\* mouse_pos has returned a tile of an ordinary grid for a pixel position
\* beyond the range on both sides, in a window of size 0.
C3_Witness ==
    /\ last.op = "mouse_pos"
    /\ ~panicked
    /\ ctx.mouse_pos = <<IMax, IMin>>
    /\ ctx.width_pixels = 0
    /\ ActiveSize = <<3, 2>>
    /\ last.ret = <<2, 0>>
    /\ Len(input.mouse_tile) >= 1

\* The coordinate as the formula gives it, over the integers.
FormulaCoord(m, dim, win) == iclamp(TruncDiv(m * dim, Max(1, win)), 0, dim - 1)

\* C6: mouse_pos returns
\*   (clamp(mouse_x * grid_cols / max(1, width_pixels), 0, grid_cols - 1),
\*    clamp(mouse_y * grid_rows / max(1, height_pixels), 0, grid_rows - 1))
\* for the context's current pixel position and window size and the active
\* console's grid size.
C6_MousePosIsTheFormula ==
    (last.op = "mouse_pos" /\ ActiveValid) =>
        /\ ~panicked
        /\ last.ret = <<FormulaCoord(ctx.mouse_pos[1], ActiveSize[1], ctx.width_pixels),
                        FormulaCoord(ctx.mouse_pos[2], ActiveSize[2], ctx.height_pixels)>>

TilesCurrentIn(c, cons, inp) ==
    /\ Len(inp.mouse_tile) >= Len(cons)
    /\ \A i \in 1 .. Len(cons) :
         LET r == TilePos(c, cons[i].console.size, overflow_checks)
         IN  ~r.panic /\ inp.mouse_tile[i] = r.v

TilesCurrent == TilesCurrentIn(ctx, consoles, input)

Registered(table, k) == IF table = "fonts" THEN fonts[k] ELSE consoles[k].console.id

TableLen(table) == IF table = "fonts" THEN Len(fonts) ELSE Len(consoles)

\* C9: with registrations running in several threads, every registration
\* that has returned got an index of its own, the indices follow the order in
\* which the calls got the registry lock, the entry at the returned index is
\* the one that call supplied, and the tables hold the supplied entries in
\* that order, none lost.
C9_RegistrationsSerialized ==
    /\ \A r \in returned :
         /\ r.index + 1 \in 1 .. TableLen(r.table)
         /\ Registered(r.table, r.index + 1) = r.token
         /\ acquired[r.table][r.index + 1] = r.token
    /\ \A r1, r2 \in returned :
         (r1.table = r2.table /\ r1.token # r2.token) => r1.index # r2.index
    /\ \A table \in {"fonts", "consoles"} :
         /\ TableLen(table) <= Len(acquired[table])
         /\ Len(acquired[table]) <= TableLen(table) + 1
         /\ \A k \in 1 .. TableLen(table) : Registered(table, k) = acquired[table][k]

\* Two threads are in console registrations at once: the one that got the
\* lock has pushed its console and read its index, 0, and still holds the
\* lock; the other, with the smaller thread number, waits for the lock.
C9_Witness ==
    \E t1, t2 \in Threads :
        /\ t2 < t1
        /\ lock["BACKEND_INTERNAL"] = t1
        /\ pc[t1] = SubSeq(register_console_no_bg_steps, 4, 4)
        /\ pc[t2] = register_console_steps
        /\ [table |-> "consoles", token |-> <<t1, 1>>, index |-> 0] \in returned
        /\ consoles[1].console.id = <<t1, 1>>

\* C10: no call is about to lock a Mutex that the thread running it already
\* holds from earlier in the same call.
C10_NoCallRelocks ==
    \A t \in Threads :
        (InCall(t) /\ NextStep(t)[1] = "lock") => lock[NextStep(t)[2]] # t

\* A thread in on_mouse_position holds the registry lock and the input lock,
\* having taken the second while holding the first, and another thread waits
\* for the input lock in on_key.
C10_Witness ==
    \E t1, t2 \in Threads :
        /\ pc[t1] = SubSeq(on_mouse_position_steps, 4, 6)
        /\ lock["BACKEND_INTERNAL"] = t1
        /\ lock["INPUT"] = t1
        /\ pc[t2] = SubSeq(on_key_steps, 2, 4)

EventOps == {"on_key", "on_mouse_button", "on_event"}

\* The event a callback is to log.
EventOf(call) ==
    CASE call.op = "on_key" -> KeyboardInput(call.args[1], call.args[2], call.args[3])
      [] call.op = "on_mouse_button" -> MouseClick(call.args[1], call.args[2])
      [] call.op = "on_event" -> call.args[1]

\* C11: each on_key, on_mouse_button and on_event call puts exactly one event,
\* its own, at the end of the input event log and leaves the events before it
\* as they are, and no other call changes the log: the log is the sequence of
\* the delivered events in delivery order, repeated identical events included.
C11_EveryEventLoggedInOrder ==
    [][ IF last'.op \in EventOps
        THEN input'.events = Append(input.events, EventOf(last'))
        ELSE input'.events = input.events ]_vars

\* The same key press was delivered twice and a raw event after them; the log
\* holds the three events in that order.
C11_Witness ==
    /\ input.events = <<KeyboardInput("A", ScanCode("A"), TRUE),
                        KeyboardInput("A", ScanCode("A"), TRUE),
                        [type |-> "CloseRequested"]>>
    /\ last.op = "on_event"

\* C12: a key is Up or Down; on_key(key, _, pressed) leaves that key Down when
\* pressed and Up when not, whatever it was, leaves every other key as it was
\* and logs one event also when the state does not change; no other call
\* changes a key's state.
C12_KeyStateFollowsEvents ==
    [][ /\ \A k \in Keys : input'.keys[k] \in {"Up", "Down"}
        /\ IF last'.op = "on_key"
           THEN /\ input'.keys = [input.keys EXCEPT
                                    ![last'.args[1]] = IF last'.args[3] THEN "Down" ELSE "Up"]
                /\ Len(input'.events) = Len(input.events) + 1
           ELSE input'.keys = input.keys ]_vars

\* Key A is Down after two presses in a row, both in the log, while key B,
\* pressed and released before them, is Up.
C12_Witness ==
    /\ last = Call("on_key", <<"A", ScanCode("A"), TRUE>>, <<>>)
    /\ input.keys = [k \in Keys |-> IF k = "A" THEN "Down" ELSE "Up"]
    /\ Len(input.events) = MaxEvents
    /\ input.events[MaxEvents - 1] = input.events[MaxEvents]
    /\ input.events[1] = KeyboardInput("B", ScanCode("B"), FALSE)

\* The calls that index the registry with the active console.
ActiveOps == DrawOps \cup {"get_char_size", "mouse_pos", "mouse_point", "to_xp_file"}

\* C13: set_active_console(i) stores i as the active console whether or not a
\* console is registered at i, and changes nothing else; a drawing or query
\* call made while the active index is not a registered position panics, and
\* leaves every registered console and the context as they were.
C13_InvalidActivePanics ==
    [][ /\ last'.op = "set_active_console" =>
             /\ ctx' = [ctx EXCEPT !.active_console = last'.args[1]]
             /\ consoles' = consoles /\ fonts' = fonts /\ input' = input
             /\ ~panicked'
        /\ (last'.op \in ActiveOps /\ ~ActiveValid) =>
             /\ panicked'
             /\ consoles' = consoles
             /\ ctx' = ctx ]_vars

\* A drawing call has panicked with two consoles registered and the active
\* index one past the last; the first console still holds the call it had
\* received before and the second holds none.
C13_Witness ==
    /\ panicked
    /\ last.op = "print"
    /\ Len(consoles) = 2
    /\ ctx.active_console = 2
    /\ consoles[1].console.cells = <<"print">>
    /\ consoles[2].console.cells = <<>>

\* The value fits an unsigned integer of the width of u32.
FitsU32(value) == value \in 0 .. UMax

\* C14: init_raw returns an error, without panicking and without calling the
\* backend's initializer, when the width or the height does not fit u32; when
\* both fit, it calls the initializer once, with these two values, and
\* returns what the initializer returned, a context or an error.
C14_InitRawConvertsOrFails ==
    last.op = "init_raw" =>
        /\ ~panicked
        /\ IF FitsU32(last.args[1]) /\ FitsU32(last.args[2])
           THEN /\ Len(last.ret.backend) = 1
                /\ last.ret.backend[1].args = last.args
                /\ last.ret.result = last.ret.backend[1].returned
           ELSE /\ ~last.ret.result.ok
                /\ last.ret.backend = <<>>

\* init_raw has returned an error for a width that fits and a height one
\* above the largest u32, the backend not called.
C14_Witness ==
    /\ last.op = "init_raw"
    /\ last.args = <<4, UMax + 1>>
    /\ ~last.ret.result.ok
    /\ last.ret.backend = <<>>
    /\ ~panicked

\* C15: quit sets the quitting flag and no call resets it; the tick in which
\* the flag was set is the last one: when it returns the loop is done and
\* stays done, and, every tick returning, the loop does get there unless the
\* tick panics.
C15_QuitEndsLoop ==
    /\ [][ /\ ctx.quitting => ctx'.quitting
           /\ last'.op = "quit" => ctx'.quitting
           /\ (loop = "InTick" /\ ctx.quitting /\ loop' # "InTick") => loop' = "Done"
           /\ loop = "Done" => loop' = "Done" ]_vars
    /\ (loop = "InTick" /\ ctx.quitting) ~> (loop = "Done" \/ panicked)

\* The loop is done after a tick that drew on a console and then called quit.
C15_Witness ==
    /\ loop = "Done"
    /\ last.op = "quit"
    /\ ctx.quitting
    /\ ~panicked
    /\ Len(consoles) = 1
    /\ consoles[1].console.cells = <<"cls", "print">>

\* C16: for min <= max, iclamp(val, min, max) is min when val < min, max when
\* val > max and val otherwise, and so lies in [min, max].
C16_ClampWithinBounds ==
    (last.op = "iclamp" /\ last.args[2] <= last.args[3]) =>
        LET val == last.args[1]
            min == last.args[2]
            max == last.args[3]
        IN  /\ last.ret = IF val < min THEN min ELSE IF val > max THEN max ELSE val
            /\ min <= last.ret /\ last.ret <= max

\* iclamp(5, 0, 2) has returned 2.
C16_Witness == last = Call("iclamp", <<5, 0, 2>>, 2)

\* The slot: which console, which font, which shader.
SlotOf(dc) == <<dc.console.id, dc.font_index, dc.shader_index>>

\* C17: register_console appends one slot with the console and font index it
\* was given and shader index 0, register_console_no_bg one with shader index
\* 1; both leave the slots registered before and the font table as they are;
\* and no call removes a slot, moves it, or changes its console, font index
\* or shader index.
C17_SlotsAppendOnly ==
    [][ /\ last'.op \in {"register_console", "register_console_no_bg"} =>
             /\ consoles' = Append(consoles,
                    DisplayConsole(last'.args[1],
                                   IF last'.op = "register_console" THEN 0 ELSE 1,
                                   last'.args[2]))
             /\ fonts' = fonts
        /\ Len(consoles') >= Len(consoles)
        /\ \A k \in 1 .. Len(consoles) : SlotOf(consoles'[k]) = SlotOf(consoles[k]) ]_vars

\* A console without background and font 0 was registered after a console
\* with background and font 1 that had been drawn on and resized, and after
\* a font.
C17_Witness ==
    /\ last.op = "register_console_no_bg"
    /\ Len(consoles) = 2
    /\ SlotOf(consoles[1]) = <<0, 1, 0>>
    /\ SlotOf(consoles[2]) = <<1, 0, 1>>
    /\ consoles[1].console.cells = <<"cls">>
    /\ consoles[1].console.resized = 1
    /\ Len(fonts) = 1

\* C18: on_mouse_button(0, _) leaves left_click true, for a press and for a
\* release; on_mouse_button with another button leaves left_click as it was;
\* and so does every other call: once true, left_click stays true.
C18_LeftClickSetNeverCleared ==
    [][ /\ IF last'.op = "on_mouse_button"
           THEN ctx'.left_click = IF last'.args[1] = 0 THEN TRUE ELSE ctx.left_click
           ELSE ctx'.left_click = ctx.left_click
        /\ ctx.left_click => ctx'.left_click ]_vars

\* left_click is true after the release of button 0, a key and a resize that
\* followed it; before them the press of button 1 had left it false.
C18_Witness ==
    /\ ctx.left_click
    /\ last.op = "resize_pixels"
    /\ input.events = <<MouseClick(1, TRUE), MouseClick(0, FALSE),
                        KeyboardInput("A", ScanCode("A"), TRUE)>>
    /\ input.buttons[0] = "Up"
    /\ input.buttons[1] = "Down"

\* C19: whatever the pixel position, the window size and the grid size of a
\* registered console, mouse_pos, mouse_point and on_mouse_position return
\* without panicking: the product of the pixel coordinate and the grid
\* dimension stays in the i32 range and the divisor is not zero.
C19_MouseMappingNeverAborts ==
    ( \/ last.op \in {"mouse_pos", "mouse_point"} /\ ActiveValid
      \/ last.op = "on_mouse_position" ) => ~panicked

\* Thread t is at the lock of Mutex m, which thread h holds.
WaitsFor(t, m, h) ==
    /\ InCall(t)
    /\ NextStep(t) = LockStep(m)
    /\ lock[m] = h

\* C20: the locks are taken in one order: no call is about to take the
\* registry lock while it holds the input lock; and no two threads wait for
\* each other, one at the lock of a Mutex the other holds and the other at
\* the lock of a Mutex the first holds (with two Mutexes a longer ring of
\* waiting threads cannot form).
C20_OneLockOrderNoDeadlock ==
    /\ \A t \in Threads :
         (InCall(t) /\ NextStep(t) = LockStep("BACKEND_INTERNAL")) => lock["INPUT"] # t
    /\ \A t1, t2 \in Threads : \A m1, m2 \in Mutexes :
         ~(t1 # t2 /\ WaitsFor(t1, m1, t2) /\ WaitsFor(t2, m2, t1))

\* A thread in on_mouse_position holds the registry lock and waits for the
\* input lock, which a thread in on_key holds; that thread is not waiting.
C20_Witness ==
    \E t1, t2 \in Threads :
        /\ pc[t1] = SubSeq(on_mouse_position_steps, 3, 6)
        /\ lock["BACKEND_INTERNAL"] = t1
        /\ WaitsFor(t1, "INPUT", t2)
        /\ pc[t2] = SubSeq(on_key_steps, 3, 4)

\* C21: in every state with a registered console active, mouse_point returns
\* the point whose x and y are the two components mouse_pos returns in that
\* state, and panics only where mouse_pos panics, whatever the pixel
\* position, the window size and the grid size.
C21_MousePointEqualsMousePos ==
    (last.op = "mouse_point" /\ ActiveValid) =>
        LET r == TilePos(ctx, ActiveSize, overflow_checks)
        IN  /\ panicked = r.panic
            /\ ~panicked => last.ret = r.v

====
